---- MODULE Spec2Model ----
(***************************************************************************)
(* rsc.io/mailgun: the streaming transport of cmd/internal/mg (Mail,       *)
(* MailMIME, startPost, runPost, Die) and the line ingestion of the two    *)
(* commands mailgun-sendmail (msgCopy, main) and mailgun-mail (main).      *)
(*                                                                         *)
(* Strings the code inspects are sequences of one-character strings.       *)
(* Spec     : one send, producer (Mail / MailMIME) and consumer (runPost)  *)
(*            as two goroutines joined by an io.Pipe and the channel c.     *)
(* FairSpec : Spec with the Go scheduler's fairness to both goroutines.     *)
(* SpecCmd  : one run of mailgun-sendmail or mailgun-mail, from its command *)
(*            line and standard input to its call of MailMIME or Mail.     *)
(* SpecIngest : mailgun-sendmail -t over wider inputs, msgCopy to the call. *)
(* SpecPipe : mailgun-sendmail as it runs: the goroutine of msgCopy, main   *)
(*            (ReadMessage, MailMIME) and runPost, joined by two pipes;     *)
(*            FairPipe adds the scheduler's fairness and a network that     *)
(*            ends every exchange.                                          *)
(***************************************************************************)
EXTENDS Integers, Sequences, FiniteSets, TLC

VARIABLES
    \* ---- process-wide configuration (mg.go:25-31, 132-135)
    DisableMail, DebugHTTP,
    \* ---- the send's arguments
    kind,        \* "messages" (Mail) or "messages.mime" (MailMIME)
    msg,         \* the Message (mg.go:138-146); MailMIME uses From and To
    mime,        \* MailMIME's reader: the number of bytes it yields
    \* ---- producer goroutine (the caller of Mail / MailMIME)
    prodPc, idx, allTo, prodErr,
    fileSizes,   \* the bytes io.Copy took from each attachment so far
    \* ---- the conduit and the completion channel
    pwClosed,
    \* ---- consumer goroutine (runPost)
    consPc, crTotal, received, bodySrc, netCalls, resp, data, consErr,
    \* ---- what the process shows to the outside
    log, stderr, exited,
    \* ---- a command, from its arguments to its call of Mail / MailMIME
    cmd,         \* "sendmail" or "mail"; "" while a send is looked at alone
    opt,         \* the flags and arguments of the command line
    stdin,       \* the lines read from standard input so far
    cpc,         \* where the command is
    hdr,         \* msgCopy: still in the header
    out,         \* msgCopy: the writes to the pipe main reads
    parsed,      \* mail.ReadMessage's result: header fields and body
    from, rcpt,  \* the sender; the To, CC and BCC lists
    subject, body,
    call,        \* the call of Mail / MailMIME, once made
    \* ---- mailgun-sendmail's first pipe (part_000:196-203)
    rpc,         \* where the goroutine of stdinReader is
    pend,        \* the writes of msgCopy that wait for a read of main
    rbuf         \* what main's bufio.Reader took from the pipe and holds

tvars == <<DisableMail, DebugHTTP, kind, msg, mime, prodPc, idx, allTo,
           prodErr, fileSizes, pwClosed, consPc, crTotal, received, bodySrc, netCalls,
           resp, data, consErr, log, stderr, exited>>

cvars == <<cmd, opt, stdin, cpc, hdr, out, parsed, from, rcpt, subject, body,
           call>>

pvars == <<rpc, pend, rbuf>>

vars == <<tvars, cvars, pvars>>

(***************************************************************************)
(* Bounds of the model.                                                    *)
(***************************************************************************)
MaxRcpt == 1        \* addresses per recipient class (To, CC, BCC)
MaxAtt == 2         \* attachments per message

(***************************************************************************)
(* Strings.                                                                *)
(***************************************************************************)
Contains(s, ch) == \E i \in 1..Len(s) : s[i] = ch

RECURSIVE SumSeq(_)
SumSeq(s) == IF s = <<>> THEN 0 ELSE Head(s) + SumSeq(Tail(s))

Domain == <<"d">>                    \* the configured API domain (mg.go:27, 81)

\* mail.Address.String() as the code uses it: "<addr>", or "\"Name\" <addr>".
AddrString(a) ==
    IF a.Name = <<>> THEN <<"<">> \o a.Address \o <<">">>
    ELSE <<"\"">> \o a.Name \o <<"\"", " ", "<">> \o a.Address \o <<">">>

FixLocalAddr_Always(a) == [a EXCEPT !.Address = a.Address \o <<"@">> \o Domain]

\* mg.go:149-153
FixLocalAddr(a) ==
    IF ~Contains(a.Address, "@")
    THEN [a EXCEPT !.Address = a.Address \o <<"@">> \o Domain]
    ELSE a

\* mg.go:155-159
FixLocalAddrs(list) == [i \in 1..Len(list) |-> FixLocalAddr(list[i])]

(***************************************************************************)
(* The files named as attachments.  What os.Open and the reads of io.Copy  *)
(* find is the file system's answer at that moment.                        *)
(***************************************************************************)
AttName(i) == "f" \o ToString(i) \o ".bin"

\* filepath.Base(file), its length
BaseLen(f) == Len(f)

\* The sizes a readable file may have.
FileSizes == {0, 5}

(***************************************************************************)
(* mime/multipart framing, as multipart.Writer writes it.                  *)
(***************************************************************************)
BoundaryLen == 60      \* multipart.NewWriter: 30 random bytes in hex

NameLen(n) ==
    CASE n = "from" -> 4 [] n = "to" -> 2 [] n = "cc" -> 2 [] n = "bcc" -> 3
      [] n = "subject" -> 7 [] n = "text" -> 4 [] n = "attachment" -> 10
      [] n = "message" -> 7

\* "--B\r\n" before the first part, "\r\n--B\r\n" before the others.
DelimLen(first) == IF first THEN BoundaryLen + 4 ELSE BoundaryLen + 6

\* Content-Disposition: form-data; name="N"\r\n\r\n
FieldHeaderLen(n) == 38 + NameLen(n) + 1 + 2 + 2

\* Content-Disposition: form-data; name="N"; filename="F"\r\n
\* Content-Type: application/octet-stream\r\n\r\n
FileHeaderLen(n, flen) == 38 + NameLen(n) + 1 + 12 + flen + 1 + 2 + 40 + 2

\* "\r\n--B--\r\n"
CloseLen == BoundaryLen + 8

\* What one write to the conduit carries: t says what it is, n its bytes.
FieldPart(nm, v, first) ==
    [t |-> "field", name |-> nm, val |-> v,
     n |-> DelimLen(first) + FieldHeaderLen(nm) + Len(v)]

FilePart(nm, f, flen, first) ==
    [t |-> "file", name |-> nm, val |-> <<f>>,
     n |-> DelimLen(first) + FileHeaderLen(nm, flen)]

DataPart(size) == [t |-> "data", name |-> "", val |-> <<>>, n |-> size]

ClosePart == [t |-> "close", name |-> "", val |-> <<>>, n |-> CloseLen]

(***************************************************************************)
(* The conduit: io.Pipe is unbuffered, a Write returns when a Read of the  *)
(* other goroutine has taken its bytes.  A write is one step of both.      *)
(***************************************************************************)
\* The consumer is in a Read of the conduit.
Reading ==
    \/ consPc = "dumpreq"
    \/ consPc = "discard"
    \/ consPc = "do" /\ bodySrc = "pipe"

\* Read as it would be if it counted the calls, not the bytes.
Read_CountCalls(total, n) == total + 1

\* countingReader.Read (mg.go:222-226): the bytes of a read are counted.
Read(total, n) == total + n

\* The readers as they would be if DumpRequest read the body itself.
ThroughCounter_NotDump(pc) == pc = "do"

\* The reader a consumer position reads the conduit through: DumpRequest and
\* the HTTP client read req.Body, which is cr; the dry run reads body itself.
ThroughCounter(pc) == pc # "discard"

PipeTake(p) ==
    /\ ~exited
    /\ Reading
    /\ received' = Append(received, p)
    /\ crTotal' = IF ThroughCounter(consPc) THEN Read(crTotal, p.n) ELSE crTotal

PipeWrite(p) == PipeTake(p) /\ UNCHANGED <<cvars, pvars>>

NoWrite == UNCHANGED <<received, crTotal, cvars, pvars>>

\* An error as Die gets it: what failed, and the server's status and body.
NoErr == [what |-> "", status |-> 0, data |-> ""]

Fatal(what, status, d) == [what |-> what, status |-> status, data |-> d]

cfgVars == <<DisableMail, DebugHTTP, kind, mime>>
consLocal == <<consPc, bodySrc, netCalls, resp, data, consErr>>
outVars == <<log, stderr, exited>>

\* What a step of the producer leaves alone, besides its own position.
ProdFrame ==
    UNCHANGED <<cfgVars, msg, allTo, prodErr, fileSizes, pwClosed, consLocal,
                outVars>>

(***************************************************************************)
(* Producer: Mail (mg.go:161-202).                                         *)
(***************************************************************************)
\* mg.go:162-170
MailFix ==
    /\ ~exited /\ prodPc = "mail"
    /\ msg' = [msg EXCEPT !.From = FixLocalAddr(msg.From),
                          !.To = FixLocalAddrs(msg.To),
                          !.CC = FixLocalAddrs(msg.CC),
                          !.BCC = FixLocalAddrs(msg.BCC)]
    /\ allTo' = msg'.To \o msg'.CC \o msg'.BCC
    /\ prodPc' = "start"
    /\ NoWrite
    /\ UNCHANGED <<cfgVars, idx, prodErr, fileSizes, pwClosed, consLocal,
                   outVars>>

\* mg.go:204-215: the pipe, the channel, and go runPost(...).
StartPost ==
    /\ ~exited /\ prodPc = "start"
    /\ consPc' = "newreq"
    /\ prodPc' = IF kind = "messages" THEN "from" ELSE "mime_to"
    /\ idx' = 1
    /\ NoWrite
    /\ UNCHANGED <<cfgVars, msg, allTo, prodErr, fileSizes, pwClosed, bodySrc,
                   netCalls, resp, data, consErr, outVars>>

\* mg.go:173
WriteFrom ==
    /\ prodPc = "from"
    /\ PipeWrite(FieldPart("from", AddrString(msg.From), TRUE))
    /\ prodPc' = "to" /\ idx' = 1
    /\ ProdFrame

\* mg.go:174-176
WriteTo ==
    /\ prodPc = "to" /\ idx <= Len(msg.To)
    /\ PipeWrite(FieldPart("to", AddrString(msg.To[idx]), FALSE))
    /\ idx' = idx + 1 /\ UNCHANGED prodPc
    /\ ProdFrame

\* ToDone as it would be if the loop over msg.CC were missing.
ToDone_SkipCC ==
    /\ ~exited /\ prodPc = "to" /\ idx > Len(msg.To)
    /\ prodPc' = "bcc" /\ idx' = 1
    /\ NoWrite /\ ProdFrame

ToDone ==
    /\ ~exited /\ prodPc = "to" /\ idx > Len(msg.To)
    /\ prodPc' = "cc" /\ idx' = 1
    /\ NoWrite /\ ProdFrame

\* mg.go:177-179
WriteCC ==
    /\ prodPc = "cc" /\ idx <= Len(msg.CC)
    /\ PipeWrite(FieldPart("cc", AddrString(msg.CC[idx]), FALSE))
    /\ idx' = idx + 1 /\ UNCHANGED prodPc
    /\ ProdFrame

CCDone ==
    /\ ~exited /\ prodPc = "cc" /\ idx > Len(msg.CC)
    /\ prodPc' = "bcc" /\ idx' = 1
    /\ NoWrite /\ ProdFrame

\* mg.go:180-182
WriteBCC ==
    /\ prodPc = "bcc" /\ idx <= Len(msg.BCC)
    /\ PipeWrite(FieldPart("bcc", AddrString(msg.BCC[idx]), FALSE))
    /\ idx' = idx + 1 /\ UNCHANGED prodPc
    /\ ProdFrame

BCCDone ==
    /\ ~exited /\ prodPc = "bcc" /\ idx > Len(msg.BCC)
    /\ prodPc' = "subject" /\ idx' = 1
    /\ NoWrite /\ ProdFrame

\* mg.go:183-185
WriteSubject ==
    /\ prodPc = "subject" /\ msg.Subject # <<>>
    /\ PipeWrite(FieldPart("subject", msg.Subject, FALSE))
    /\ prodPc' = "text" /\ UNCHANGED idx
    /\ ProdFrame

SubjectSkip ==
    /\ ~exited /\ prodPc = "subject" /\ msg.Subject = <<>>
    /\ prodPc' = "text" /\ UNCHANGED idx
    /\ NoWrite /\ ProdFrame

\* mg.go:186
WriteText ==
    /\ prodPc = "text"
    /\ PipeWrite(FieldPart("text", msg.Body, FALSE))
    /\ prodPc' = "att" /\ idx' = 1
    /\ ProdFrame

\* mg.go:188-190: CreateFormFile writes the part's header to the conduit.
AttCreate ==
    /\ prodPc = "att" /\ idx <= Len(msg.Attachments)
    /\ PipeWrite(FilePart("attachment", msg.Attachments[idx],
                          BaseLen(msg.Attachments[idx]), FALSE))
    /\ prodPc' = "att_open" /\ UNCHANGED idx
    /\ ProdFrame

AttDone ==
    /\ ~exited /\ prodPc = "att" /\ idx > Len(msg.Attachments)
    /\ prodPc' = "close" /\ UNCHANGED idx
    /\ NoWrite /\ ProdFrame

\* mg.go:191-194
AttOpen ==
    /\ ~exited /\ prodPc = "att_open"
    /\ \E opened \in BOOLEAN :
          IF opened
          THEN prodPc' = "att_copy" /\ UNCHANGED prodErr
          ELSE prodPc' = "die_log"
               /\ prodErr' = Fatal("attaching file: open", 0, "")
    /\ NoWrite
    /\ UNCHANGED <<cfgVars, msg, allTo, idx, fileSizes, pwClosed, consLocal,
                   outVars>>

\* mg.go:195-198: io.Copy streams the file through the conduit; f.Close().
AttCopyData ==
    /\ prodPc = "att_copy"
    /\ \E size \in FileSizes \ {0} :
          /\ PipeWrite(DataPart(size))
          /\ fileSizes' = Append(fileSizes, size)
    /\ prodPc' = "att" /\ idx' = idx + 1
    /\ UNCHANGED <<cfgVars, msg, allTo, prodErr, pwClosed, consLocal, outVars>>

\* An empty file: io.Copy writes nothing.
AttCopyEmpty ==
    /\ ~exited /\ prodPc = "att_copy" /\ 0 \in FileSizes
    /\ fileSizes' = Append(fileSizes, 0)
    /\ prodPc' = "att" /\ idx' = idx + 1
    /\ NoWrite
    /\ UNCHANGED <<cfgVars, msg, allTo, prodErr, pwClosed, consLocal, outVars>>

\* A read of the file fails.
AttCopyFail ==
    /\ ~exited /\ prodPc = "att_copy"
    /\ prodPc' = "die_log" /\ prodErr' = Fatal("attaching file: read", 0, "")
    /\ NoWrite
    /\ UNCHANGED <<cfgVars, msg, allTo, idx, fileSizes, pwClosed, consLocal,
                   outVars>>

\* mg.go:200 and 304: w.Close() writes the closing boundary.
WClose ==
    /\ prodPc = "close"
    /\ PipeWrite(ClosePart)
    /\ prodPc' = "end_close" /\ UNCHANGED idx
    /\ ProdFrame

\* mg.go:211: end() closes the write end of the conduit.
EndClose ==
    /\ ~exited /\ prodPc = "end_close"
    /\ pwClosed' = TRUE
    /\ prodPc' = "end_recv"
    /\ NoWrite
    /\ UNCHANGED <<cfgVars, msg, allTo, idx, prodErr, fileSizes, consLocal,
                   outVars>>

\* EndWait as it would be if end() did not wait for the consumer.
EndWait_NoWait ==
    /\ ~exited /\ prodPc = "end_recv"
    /\ prodPc' = "returned"
    /\ NoWrite
    /\ UNCHANGED <<cfgVars, msg, allTo, idx, prodErr, fileSizes, pwClosed,
                   consLocal, outVars>>

\* mg.go:212 with mg.go:246 / 284: c is unbuffered, "<-c" and "c <- 1" are
\* one step of both goroutines; then Mail / MailMIME returns.
EndWait ==
    /\ ~exited /\ prodPc = "end_recv" /\ consPc = "send_c"
    /\ prodPc' = "returned" /\ consPc' = "done"
    /\ NoWrite
    /\ UNCHANGED <<cfgVars, msg, allTo, idx, prodErr, fileSizes, pwClosed,
                   bodySrc, netCalls, resp, data, consErr, outVars>>

(***************************************************************************)
(* Producer: MailMIME (mg.go:292-306).                                     *)
(***************************************************************************)
\* mg.go:293-294
MimeFix ==
    /\ ~exited /\ prodPc = "mailmime"
    /\ msg' = [msg EXCEPT !.From = FixLocalAddr(msg.From),
                          !.To = FixLocalAddrs(msg.To)]
    /\ allTo' = msg'.To
    /\ prodPc' = "start"
    /\ NoWrite
    /\ UNCHANGED <<cfgVars, idx, prodErr, fileSizes, pwClosed, consLocal,
                   outVars>>

\* mg.go:297-299
MimeWriteTo ==
    /\ prodPc = "mime_to" /\ idx <= Len(msg.To)
    /\ PipeWrite(FieldPart("to", AddrString(msg.To[idx]), idx = 1))
    /\ idx' = idx + 1 /\ UNCHANGED prodPc
    /\ ProdFrame

MimeToDone ==
    /\ ~exited /\ prodPc = "mime_to" /\ idx > Len(msg.To)
    /\ prodPc' = "mime_file" /\ UNCHANGED idx
    /\ NoWrite /\ ProdFrame

\* mg.go:300-301
MimeCreate ==
    /\ prodPc = "mime_file"
    /\ PipeWrite(FilePart("message", "mime.msg", 8, Len(msg.To) = 0))
    /\ prodPc' = "mime_copy" /\ UNCHANGED idx
    /\ ProdFrame

\* mg.go:302-303
MimeCopyData ==
    /\ prodPc = "mime_copy" /\ mime > 0
    /\ PipeWrite(DataPart(mime))
    /\ prodPc' = "close" /\ UNCHANGED idx
    /\ ProdFrame

MimeCopyEmpty ==
    /\ ~exited /\ prodPc = "mime_copy" /\ mime = 0
    /\ prodPc' = "close" /\ UNCHANGED idx
    /\ NoWrite /\ ProdFrame

(***************************************************************************)
(* Die (mg.go:70-74): a log line, a line on standard error, os.Exit(2).    *)
(* Three calls, and either goroutine may be in them.                       *)
(***************************************************************************)
\* mg.go:71
ProdDieLog ==
    /\ ~exited /\ prodPc = "die_log"
    /\ log' = Append(log, [kind |-> "fatal", err |-> prodErr])
    /\ prodPc' = "die_print"
    /\ NoWrite
    /\ UNCHANGED <<cfgVars, msg, allTo, idx, prodErr, fileSizes, pwClosed,
                   consLocal, stderr, exited>>

\* mg.go:72
ProdDiePrint ==
    /\ ~exited /\ prodPc = "die_print"
    /\ stderr' = Append(stderr, prodErr.what)
    /\ prodPc' = "die_exit"
    /\ NoWrite
    /\ UNCHANGED <<cfgVars, msg, allTo, idx, prodErr, fileSizes, pwClosed,
                   consLocal, log, exited>>

\* mg.go:73
ProdDieExit ==
    /\ ~exited /\ prodPc = "die_exit"
    /\ exited' = TRUE
    /\ NoWrite
    /\ UNCHANGED <<cfgVars, msg, allTo, prodPc, idx, prodErr, fileSizes,
                   pwClosed, consLocal, log, stderr>>

\* What a step of the consumer leaves alone, besides what it names.
ConsFrame ==
    UNCHANGED <<cfgVars, msg, allTo, prodPc, idx, prodErr, fileSizes, pwClosed>>

\* mg.go:71
ConsDieLog ==
    /\ ~exited /\ consPc = "die_log"
    /\ log' = Append(log, [kind |-> "fatal", err |-> consErr])
    /\ consPc' = "die_print"
    /\ NoWrite /\ ConsFrame
    /\ UNCHANGED <<bodySrc, netCalls, resp, data, consErr, stderr, exited>>

\* mg.go:72
ConsDiePrint ==
    /\ ~exited /\ consPc = "die_print"
    /\ stderr' = Append(stderr, consErr.what)
    /\ consPc' = "die_exit"
    /\ NoWrite /\ ConsFrame
    /\ UNCHANGED <<bodySrc, netCalls, resp, data, consErr, log, exited>>

\* mg.go:73
ConsDieExit ==
    /\ ~exited /\ consPc = "die_exit"
    /\ exited' = TRUE
    /\ NoWrite /\ ConsFrame
    /\ UNCHANGED <<consLocal, log, stderr>>

(***************************************************************************)
(* Consumer: runPost (mg.go:228-285).                                      *)
(***************************************************************************)
\* Where runPost goes after the request is built and, in diagnostic mode,
\* dumped (mg.go:243, 250).
AfterRequest == IF DisableMail THEN "disabled" ELSE "do"

\* mg.go:229-235
NewRequest ==
    /\ ~exited /\ consPc = "newreq"
    /\ consPc' = IF DebugHTTP THEN "dumpreq" ELSE AfterRequest
    /\ netCalls' = IF consPc' = "do" THEN netCalls + 1 ELSE netCalls
    /\ NoWrite /\ ConsFrame
    /\ UNCHANGED <<bodySrc, resp, data, consErr, outVars>>

\* mg.go:236-240: DumpRequest(req, true) reads req.Body, which is cr, to its
\* end, leaves a copy in memory as the request's body, and the dump is
\* written to standard error.  The conduit's reads end when pw is closed.
DumpRequestEOF ==
    /\ ~exited /\ consPc = "dumpreq" /\ pwClosed
    /\ bodySrc' = "buffer"
    /\ stderr' = Append(stderr, "request dump")
    /\ consPc' = AfterRequest
    /\ netCalls' = IF consPc' = "do" THEN netCalls + 1 ELSE netCalls
    /\ NoWrite /\ ConsFrame
    /\ UNCHANGED <<resp, data, consErr, log, exited>>

\* mg.go:244
Disabled ==
    /\ ~exited /\ consPc = "disabled"
    /\ stderr' = Append(stderr, "not sending mail (disabled)")
    /\ consPc' = "discard"
    /\ NoWrite /\ ConsFrame
    /\ UNCHANGED <<bodySrc, netCalls, resp, data, consErr, log, exited>>

\* DiscardEOF as it would be if the dry run signalled without draining.
DiscardEOF_NoDrain ==
    /\ ~exited /\ consPc = "discard"
    /\ consPc' = "send_c"
    /\ NoWrite /\ ConsFrame
    /\ UNCHANGED <<bodySrc, netCalls, resp, data, consErr, outVars>>

\* mg.go:245-246: io.Copy(ioutil.Discard, body) returns at the conduit's end.
DiscardEOF ==
    /\ ~exited /\ consPc = "discard" /\ pwClosed
    /\ consPc' = "send_c"
    /\ NoWrite /\ ConsFrame
    /\ UNCHANGED <<bodySrc, netCalls, resp, data, consErr, outVars>>

\* The responses of the server: a status, a body, and whether reading the
\* body fails ("early": before a byte of it, "late": after all of it).
JsonFull == "{\"message\":\"Queued\",\"id\":\"<1@d>\"}"
JsonEmpty == "{}"
PlainText == "Forbidden"

Responses ==
    [status : {200, 500}, body : {JsonFull, JsonEmpty, PlainText},
     readErr : {"no", "early", "late"}]

\* The request body has been handed to the HTTP client to its end.
BodyComplete == bodySrc = "buffer" \/ pwClosed

\* mg.go:250-253: the exchange fails (no connection, a reset), at any time.
DoFail ==
    /\ ~exited /\ consPc = "do"
    /\ consErr' = Fatal("sending mail: network", 0, "")
    /\ consPc' = "die_log"
    /\ NoWrite /\ ConsFrame
    /\ UNCHANGED <<bodySrc, netCalls, resp, data, outVars>>

\* A refusal that arrives while the request body is still being written.
EarlyResponses == {r \in Responses : r.status # 200 /\ r.body = PlainText}

\* mg.go:250: Do returns a response.  A server answers 200 to a form it has
\* read to the closing boundary; it may refuse (non-200) at any time.
DoResponse ==
    /\ ~exited /\ consPc = "do"
    /\ resp' \in IF BodyComplete THEN Responses ELSE EarlyResponses
    /\ consPc' = "gotresp"
    /\ NoWrite /\ ConsFrame
    /\ UNCHANGED <<bodySrc, netCalls, data, consErr, outVars>>

\* ioutil.ReadAll(resp.Body): what was read before the error, if any.
ReadAll(r) == IF r.readErr = "early" THEN "" ELSE r.body

\* json.Unmarshal into struct{Message, ID string}: any JSON object is
\* accepted, absent fields stay empty.
Unmarshal(d) ==
    CASE d = JsonFull -> [err |-> FALSE, Message |-> "Queued"]
      [] d = JsonEmpty -> [err |-> FALSE, Message |-> ""]
      [] OTHER -> [err |-> TRUE, Message |-> ""]

\* Classify as it would be if the status were not looked at.
Classify_NoStatus(r, debug) ==
    IF debug /\ r.readErr # "no"
    THEN [ok |-> FALSE, data |-> "", err |-> Fatal("dumping response", 0, "")]
    ELSE LET d == ReadAll(r) IN
         IF r.readErr # "no"
         THEN [ok |-> FALSE, data |-> d,
               err |-> Fatal("sending mail: read", 0, d)]
         ELSE IF Unmarshal(d).err
         THEN [ok |-> FALSE, data |-> d,
               err |-> Fatal("sending mail: invalid JSON response", 0, d)]
         ELSE [ok |-> TRUE, data |-> d, err |-> NoErr]

\* mg.go:255-277: DumpResponse in diagnostic mode (it reads the body and
\* fails if the read fails), ReadAll, the status, the read error, the JSON.
Classify(r, debug) ==
    IF debug /\ r.readErr # "no"
    THEN [ok |-> FALSE, data |-> "", err |-> Fatal("dumping response", 0, "")]
    ELSE LET d == ReadAll(r) IN
         IF r.status # 200
         THEN [ok |-> FALSE, data |-> d,
               err |-> Fatal("sending mail: status", r.status, d)]
         ELSE IF r.readErr # "no"
         THEN [ok |-> FALSE, data |-> d,
               err |-> Fatal("sending mail: read", 0, d)]
         ELSE IF Unmarshal(d).err
         THEN [ok |-> FALSE, data |-> d,
               err |-> Fatal("sending mail: invalid JSON response", 0, d)]
         ELSE [ok |-> TRUE, data |-> d, err |-> NoErr]

HandleResponse ==
    /\ ~exited /\ consPc = "gotresp"
    /\ LET c == Classify(resp, DebugHTTP) IN
          /\ data' = c.data
          /\ consErr' = c.err
          /\ consPc' = IF c.ok THEN "log" ELSE "die_log"
          /\ stderr' = IF DebugHTTP /\ resp.readErr = "no"
                       THEN Append(stderr, "response dump") ELSE stderr
    /\ NoWrite /\ ConsFrame
    /\ UNCHANGED <<bodySrc, netCalls, resp, log, exited>>

\* mg.go:278-283: the success record, and the server's message for a human.
LogSuccess ==
    /\ ~exited /\ consPc = "log"
    /\ log' = Append(log, [kind |-> "sent", from |-> msg.From, to |-> allTo,
                           len |-> crTotal, resp |-> data])
    /\ \E tell \in BOOLEAN :      \* IsTTY || Verbose
          stderr' = IF tell
                    THEN Append(stderr, "mailgun: " \o Unmarshal(data).Message)
                    ELSE stderr
    /\ consPc' = "send_c"
    /\ NoWrite /\ ConsFrame
    /\ UNCHANGED <<bodySrc, netCalls, resp, data, consErr, exited>>

(***************************************************************************)
(* One send.                                                               *)
(***************************************************************************)
\* No command is looked at: the send's arguments are drawn directly.
NoCommand ==
    /\ cmd = "" /\ cpc = ""
    /\ opt = [mode |-> "pipe", tflag |-> FALSE, args |-> <<>>]
    /\ stdin = <<>> /\ hdr = TRUE /\ out = <<>>
    /\ parsed = [err |-> FALSE, header |-> <<>>, body |-> <<>>]
    /\ from = [Name |-> <<>>, Address |-> <<>>]
    /\ rcpt = [to |-> <<>>, cc |-> <<>>, bcc |-> <<>>]
    /\ subject = <<>> /\ body = <<>>
    /\ call = [fn |-> ""]
    /\ rpc = "idle" /\ pend = <<>> /\ rbuf = <<>>

RcptAddr(c, i) ==
    IF i % 2 = 1 THEN [Name |-> <<>>, Address |-> <<c>>]
    ELSE [Name |-> <<>>, Address |-> <<c, "@", "x">>]

RcptList(c, n) == [i \in 1..n |-> RcptAddr(c, i)]

Messages ==
    [From : {[Name |-> <<>>, Address |-> <<"u">>]},
     To : {RcptList("t", n) : n \in 0..MaxRcpt},
     CC : {RcptList("c", n) : n \in 0..MaxRcpt},
     BCC : {RcptList("b", n) : n \in 0..MaxRcpt},
     Subject : {<<>>, <<"h", "i">>},
     Body : {<<"y", "o", "\n">>},
     Attachments : {[i \in 1..n |-> AttName(i)] : n \in 0..MaxAtt}]

MimeMessages ==
    [From : {[Name |-> <<>>, Address |-> <<"u">>]},
     To : {RcptList("t", n) : n \in 0..MaxRcpt + 1},
     CC : {<<>>}, BCC : {<<>>}, Subject : {<<>>}, Body : {<<>>},
     Attachments : {<<>>}]

Init ==
    /\ DisableMail \in BOOLEAN
    /\ DebugHTTP \in BOOLEAN
    /\ kind \in {"messages", "messages.mime"}
    /\ msg \in IF kind = "messages" THEN Messages ELSE MimeMessages
    /\ mime \in IF kind = "messages" THEN {0} ELSE {0, 7}
    /\ prodPc = IF kind = "messages" THEN "mail" ELSE "mailmime"
    /\ idx = 1
    /\ allTo = <<>>
    /\ prodErr = NoErr
    /\ fileSizes = <<>>
    /\ pwClosed = FALSE
    /\ consPc = "idle"
    /\ crTotal = 0
    /\ received = <<>>
    /\ bodySrc = "pipe"
    /\ netCalls = 0
    /\ resp = [status |-> 0, body |-> "", readErr |-> "no"]
    /\ data = ""
    /\ consErr = NoErr
    /\ log = <<>>
    /\ stderr = <<>>
    /\ exited = FALSE
    /\ NoCommand

Producer ==
    \/ MailFix \/ StartPost \/ WriteFrom \/ WriteTo \/ ToDone \/ WriteCC
    \/ CCDone \/ WriteBCC \/ BCCDone \/ WriteSubject \/ SubjectSkip
    \/ WriteText \/ AttCreate \/ AttDone \/ AttOpen \/ AttCopyData
    \/ AttCopyEmpty \/ AttCopyFail \/ WClose \/ EndClose \/ EndWait
    \/ MimeFix \/ MimeWriteTo \/ MimeToDone \/ MimeCreate \/ MimeCopyData
    \/ MimeCopyEmpty \/ ProdDieLog \/ ProdDiePrint \/ ProdDieExit

\* The consumer's own steps; the network's answer (DoFail, DoResponse) is
\* not among them: nothing makes a server answer.
Consumer ==
    \/ NewRequest \/ DumpRequestEOF \/ Disabled \/ DiscardEOF
    \/ HandleResponse \/ LogSuccess
    \/ ConsDieLog \/ ConsDiePrint \/ ConsDieExit

Network == DoFail \/ DoResponse

Next == Producer \/ Consumer \/ Network

Spec == Init /\ [][Next]_vars

\* Go schedules every runnable goroutine.
FairSpec == Spec /\ WF_vars(Producer) /\ WF_vars(Consumer)

(***************************************************************************)
(* Properties of one send.                                                 *)
(***************************************************************************)
Fatals == {i \in DOMAIN log : log[i].kind = "fatal"}
Sents == {i \in DOMAIN log : log[i].kind = "sent"}

RECURSIVE SumN(_)
SumN(parts) == IF parts = <<>> THEN 0 ELSE Head(parts).n + SumN(Tail(parts))

IsField(p) == p.t = "field"
IsFile(p) == p.t = "file"

\* C1: a send returns only after the write end of the conduit is closed and
\* the consumer has finished its exchange (the response classified and the
\* success record logged, or the dry run's drain) and signalled on c.
C1_ReturnAfterCompletion ==
    prodPc = "returned" =>
        /\ pwClosed
        /\ consPc = "done"
        /\ IF DisableMail THEN netCalls = 0
           ELSE resp.status = 200 /\ Cardinality(Sents) = 1

C1_Witness == prodPc = "returned" /\ ~DisableMail /\ netCalls = 1

\* C2: an error of the producer or of the consumer is logged and reported
\* exactly once, in every interleaving; a failed send logs no success.
C2_ErrorExactlyOnce ==
    /\ Cardinality(Fatals) <= 1
    /\ exited => Cardinality(Fatals) = 1 /\ Sents = {} /\ prodPc # "returned"

\* C3: in a dry run no network call is made, completion is signalled only
\* after the producer closed the conduit, and the send returns (with no
\* failure logged and the note on standard error) unless the producer
\* itself failed on an attachment.
C3_DryRunDrains ==
    /\ [](DisableMail => netCalls = 0)
    /\ [](DisableMail /\ consPc \in {"send_c", "done"} => pwClosed)
    /\ [](DisableMail /\ prodPc = "returned" =>
            /\ log = <<>>
            /\ \E i \in DOMAIN stderr : stderr[i] = "not sending mail (disabled)")
    /\ (DisableMail ~> (prodPc = "returned" \/ prodErr # NoErr))

C3_Witness ==
    /\ DisableMail /\ prodPc = "returned" /\ kind = "messages"
    /\ Len(fileSizes) >= 2 /\ netCalls = 0

\* C4: after a dry run of a message without attachments, the byte counter
\* equals the size of the payload written into the conduit.
C4_DryRunCounterIsPayload ==
    (prodPc = "returned" /\ DisableMail /\ msg.Attachments = <<>>)
        => crTotal = SumN(received)

\* The fields Mail writes, in its order, as (name, value).
ExpectedFields(m) ==
    <<<<"from", AddrString(m.From)>>>>
    \o [i \in 1..Len(m.To) |-> <<"to", AddrString(m.To[i])>>]
    \o [i \in 1..Len(m.CC) |-> <<"cc", AddrString(m.CC[i])>>]
    \o [i \in 1..Len(m.BCC) |-> <<"bcc", AddrString(m.BCC[i])>>]
    \o (IF m.Subject # <<>> THEN <<<<"subject", m.Subject>>>> ELSE <<>>)
    \o <<<<"text", m.Body>>>>

NameVal(parts) == [i \in 1..Len(parts) |-> <<parts[i].name, parts[i].val>>]

IsPrefix(a, b) == Len(a) <= Len(b) /\ a = SubSeq(b, 1, Len(a))

ValueBytes(m) ==
    Len(AddrString(m.From))
    + SumSeq([i \in 1..Len(m.To) |-> Len(AddrString(m.To[i]))])
    + SumSeq([i \in 1..Len(m.CC) |-> Len(AddrString(m.CC[i]))])
    + SumSeq([i \in 1..Len(m.BCC) |-> Len(AddrString(m.BCC[i]))])
    + Len(m.Subject) + Len(m.Body)

FramingBytes(m) ==
    DelimLen(TRUE) + FieldHeaderLen("from")
    + Len(m.To) * (DelimLen(FALSE) + FieldHeaderLen("to"))
    + Len(m.CC) * (DelimLen(FALSE) + FieldHeaderLen("cc"))
    + Len(m.BCC) * (DelimLen(FALSE) + FieldHeaderLen("bcc"))
    + (IF m.Subject # <<>> THEN DelimLen(FALSE) + FieldHeaderLen("subject") ELSE 0)
    + DelimLen(FALSE) + FieldHeaderLen("text")
    + SumSeq([i \in 1..Len(m.Attachments) |->
                DelimLen(FALSE)
                + FileHeaderLen("attachment", BaseLen(m.Attachments[i]))])
    + CloseLen

\* C8 as claimed: after a completed send the byte counter is the sum of the
\* lengths of the field values and of the sizes of the attachment files.
C8_CounterIsValuesAndFiles ==
    (prodPc = "returned" /\ kind = "messages")
        => crTotal = ValueBytes(msg) + SumSeq(fileSizes)

\* C8 as amended: after a send that was transmitted (or dumped in diagnostic
\* mode) the byte counter is the sum of the lengths of the field values, the
\* sizes of the attachment files and the multipart framing; after a dry run
\* without diagnostic mode it is 0.
C8_CounterIsEncodedPayload ==
    (prodPc = "returned" /\ kind = "messages") =>
        IF DisableMail /\ ~DebugHTTP THEN crTotal = 0
        ELSE crTotal = ValueBytes(msg) + SumSeq(fileSizes) + FramingBytes(msg)

C8_Witness ==
    /\ prodPc = "returned" /\ kind = "messages" /\ ~DisableMail
    /\ Len(fileSizes) >= 2 /\ SumSeq(fileSizes) > 0 /\ crTotal > 0

\* C17: diagnostic mode does not change the count.  In a send that is not a
\* dry run every byte taken from the conduit is counted once, whether
\* DumpRequest or the HTTP client took it, and the len of the success record
\* is the size of the whole encoded payload, which the message alone
\* determines.
C17_DebugSameCount ==
    /\ ~DisableMail => crTotal = SumN(received)
    /\ \A i \in Sents :
          /\ pwClosed /\ received[Len(received)] = ClosePart
          /\ log[i].len = SumN(received)
          /\ kind = "messages" =>
                log[i].len = ValueBytes(msg) + SumSeq(fileSizes)
                             + FramingBytes(msg)
          /\ kind = "messages.mime" =>
                log[i].len =
                    SumSeq([j \in 1..Len(msg.To) |->
                              DelimLen(j = 1) + FieldHeaderLen("to")
                              + Len(AddrString(msg.To[j]))])
                    + DelimLen(Len(msg.To) = 0) + FileHeaderLen("message", 8)
                    + mime + CloseLen

C17_Witness ==
    /\ DebugHTTP /\ ~DisableMail /\ Sents # {} /\ bodySrc = "buffer"
    /\ Len(fileSizes) >= 1 /\ log[Len(log)].len > SumSeq(fileSizes)

\* runPost has classified the server's response.
Classified == resp.status # 0 /\ consPc \notin {"do", "gotresp"}
Succeeded == consPc \in {"log", "send_c", "done"}
Failed == consPc \in {"die_log", "die_print", "die_exit"}

\* C9 as claimed: success is logged and signalled exactly when the status is
\* 200 and the body parses; a non-200 status is fatal with the response body
\* verbatim in the message; a failing case logs no success record.
C9_ClassificationAsClaimed ==
    Classified =>
        /\ Succeeded <=> (resp.status = 200 /\ ~Unmarshal(resp.body).err)
        /\ resp.status # 200 => Failed /\ consErr.data = resp.body
        /\ Failed => Sents = {}

\* C9 as amended: success is logged and signalled exactly when the status
\* is 200, the body was read without error and it unmarshals; a 200 whose
\* body does not unmarshal is fatal; a non-200 status is fatal and, unless
\* the response dump of diagnostic mode failed, its message holds the body
\* as far as it was read (all of it when the read did not fail before its
\* end); a failing case logs no success record.
C9_Classification ==
    Classified =>
        /\ Succeeded <=> /\ resp.status = 200
                         /\ resp.readErr = "no"
                         /\ ~Unmarshal(resp.body).err
        /\ consPc \in {"send_c", "done"} =>
              /\ Cardinality(Sents) = 1
              /\ \A i \in Sents : log[i].resp = resp.body
        /\ (resp.status = 200 /\ resp.readErr = "no" /\ Unmarshal(resp.body).err)
              => Failed /\ consErr.what = "sending mail: invalid JSON response"
        /\ resp.status # 200 =>
              /\ Failed
              /\ ~(DebugHTTP /\ resp.readErr # "no") =>
                    /\ consErr.what = "sending mail: status"
                    /\ consErr.status = resp.status
                    /\ resp.readErr # "early" => consErr.data = resp.body
        /\ Failed => Sents = {}

C9_Witness ==
    /\ consPc = "die_print" /\ resp.status = 500 /\ resp.readErr = "no"
    /\ consErr.data = PlainText
    /\ \E i \in Fatals : log[i].err.data = PlainText

(***************************************************************************)
(* The commands.  Standard input is read a line at a time (ReadBytes('\n'))*)
(* and what a read returns is the environment's answer at that moment: a   *)
(* line ending in "\n", a last line without it, end of input, or an error. *)
(***************************************************************************)
MaxLines == 4        \* lines mailgun-sendmail reads from standard input

nl == <<"\n">>

Last(q) == q[Len(q)]

\* bytes.IndexByte, 1-based; 0 when ch is not in q
IndexByte(q, ch) ==
    IF Contains(q, ch)
    THEN CHOOSE i \in 1..Len(q) : q[i] = ch /\ \A j \in 1..(i - 1) : q[j] # ch
    ELSE 0

\* strings.LastIndex of a one-byte string, 1-based; 0 when absent
LastIndex(q, ch) ==
    IF Contains(q, ch)
    THEN CHOOSE i \in 1..Len(q) : q[i] = ch /\ \A j \in (i + 1)..Len(q) : q[j] # ch
    ELSE 0

IsSpace(ch) == ch \in {" ", "\t", "\n", "\r"}

RECURSIVE TrimLeft(_)
TrimLeft(q) == IF q # <<>> /\ IsSpace(Head(q)) THEN TrimLeft(Tail(q)) ELSE q

RECURSIVE TrimRight(_)
TrimRight(q) ==
    IF q # <<>> /\ IsSpace(Last(q)) THEN TrimRight(SubSeq(q, 1, Len(q) - 1)) ELSE q

\* strings.TrimSpace
TrimSpace(q) == TrimRight(TrimLeft(q))

\* strings.TrimSuffix(q, "\n")
TrimNL(q) == IF q # <<>> /\ Last(q) = "\n" THEN SubSeq(q, 1, Len(q) - 1) ELSE q

LowerCase == <<"a", "b", "c", "d", "e", "f", "g", "h", "i", "j", "k", "l", "m",
               "n", "o", "p", "q", "r", "s", "t", "u", "v", "w", "x", "y", "z">>
UpperCase == <<"A", "B", "C", "D", "E", "F", "G", "H", "I", "J", "K", "L", "M",
               "N", "O", "P", "Q", "R", "S", "T", "U", "V", "W", "X", "Y", "Z">>

ToLowerCh(ch) ==
    IF Contains(UpperCase, ch) THEN LowerCase[IndexByte(UpperCase, ch)] ELSE ch
ToUpperCh(ch) ==
    IF Contains(LowerCase, ch) THEN UpperCase[IndexByte(LowerCase, ch)] ELSE ch

\* strings.ToLower
ToLower(q) == [i \in 1..Len(q) |-> ToLowerCh(q[i])]

CanonicalKey_AsWritten(q) == q

\* textproto.CanonicalMIMEHeaderKey: upper case at the start and after "-",
\* lower case elsewhere.
CanonicalKey(q) ==
    [i \in 1..Len(q) |->
        IF i = 1 \/ q[i - 1] = "-" THEN ToUpperCh(q[i]) ELSE ToLowerCh(q[i])]

\* The bytes of header names in ASCII order, for sort.Strings.
Ascii == <<"-">> \o UpperCase \o LowerCase

RECURSIVE StrLess(_, _)
StrLess(a, b) ==
    IF a = <<>> THEN b # <<>>
    ELSE IF b = <<>> THEN FALSE
    ELSE IF Head(a) = Head(b) THEN StrLess(Tail(a), Tail(b))
    ELSE IndexByte(Ascii, Head(a)) < IndexByte(Ascii, Head(b))

RECURSIVE SortStrings_Descending(_)
SortStrings_Descending(S) ==
    IF S = {} THEN <<>>
    ELSE LET most == CHOOSE x \in S : \A y \in S \ {x} : StrLess(y, x)
         IN  <<most>> \o SortStrings_Descending(S \ {most})

\* sort.Strings on a set of distinct strings
RECURSIVE SortStrings(_)
SortStrings(S) ==
    IF S = {} THEN <<>>
    ELSE LET least == CHOOSE x \in S : \A y \in S \ {x} : StrLess(x, y)
         IN  <<least>> \o SortStrings(S \ {least})

RECURSIVE Flatten(_)
Flatten(qq) == IF qq = <<>> THEN <<>> ELSE Head(qq) \o Flatten(Tail(qq))

\* The lines of a byte stream, each with its "\n"; a last line may lack it.
RECURSIVE Lines(_)
Lines(q) ==
    LET i == IndexByte(q, "\n") IN
    IF q = <<>> THEN <<>>
    ELSE IF i = 0 THEN <<q>>
    ELSE <<SubSeq(q, 1, i)>> \o Lines(SubSeq(q, i + 1, Len(q)))

\* strings.Split(q, sep) for a one-byte sep
RECURSIVE Split(_, _)
Split(q, sep) ==
    LET i == IndexByte(q, sep) IN
    IF i = 0 THEN <<q>>
    ELSE <<SubSeq(q, 1, i - 1)>> \o Split(SubSeq(q, i + 1, Len(q)), sep)

\* mail.ParseAddress on the texts ParseAddress hands it: those with one of
\* the bytes <>()" or white space that do not end in ">" or that start with
\* a quote.  It takes "name" <local@domain> and refuses the rest.
MailParseAddress(addr) ==
    LET refused == [err |-> TRUE, Name |-> <<>>, Address |-> <<>>]
        q == IndexByte(Tail(addr), "\"") + 1      \* the closing quote
        rest == TrimSpace(SubSeq(addr, q + 1, Len(addr)))
        spec == SubSeq(rest, 2, Len(rest) - 1)
    IN  IF addr = <<>> \/ Head(addr) # "\"" \/ q = 1 THEN refused
        ELSE IF /\ Len(rest) > 2 /\ Head(rest) = "<" /\ Last(rest) = ">"
                /\ IndexByte(spec, "@") > 1 /\ IndexByte(spec, "@") < Len(spec)
                /\ \A i \in 1..Len(spec) :
                      spec[i] \notin {"<", ">", "(", ")", "\"", " "}
        THEN [err |-> FALSE, Name |-> SubSeq(addr, 2, q - 1), Address |-> spec]
        ELSE refused

\* strings.ContainsAny(addr, "<>()\" \t\r\n")
ContainsAny(addr, chars) == \E i \in 1..Len(addr) : addr[i] \in chars

\* mg.go:85-98
ParseAddress(addr) ==
    IF ~ContainsAny(addr, {"<", ">", "(", ")", "\"", " ", "\t", "\r", "\n"})
    THEN [err |-> FALSE, Name |-> <<>>, Address |-> addr]
    ELSE IF /\ Last(addr) = ">" /\ Head(addr) # "\""
            /\ LastIndex(addr, "<") > 0
    THEN LET i == LastIndex(addr, "<") IN
         [err |-> FALSE, Name |-> TrimSpace(SubSeq(addr, 1, i - 1)),
          Address |-> SubSeq(addr, i, Len(addr) - 1)]
    ELSE MailParseAddress(addr)

\* mail.ParseAddressList on a header value that lists bare addr-specs
\* (local@domain) separated by commas; a value with an item of another
\* shape, or with no item, is refused.
ParseAddressList(val) ==
    LET items == Split(val, ",")
        addrs == [i \in 1..Len(items) |-> TrimSpace(items[i])]
        good(a) == /\ IndexByte(a, "@") > 1 /\ IndexByte(a, "@") < Len(a)
                   /\ ~ContainsAny(a, {"<", ">", "(", ")", "\"", " ", ":"})
    IN  IF \A i \in 1..Len(addrs) : good(addrs[i])
        THEN [err |-> FALSE,
              list |-> [i \in 1..Len(addrs) |->
                          [Name |-> <<>>, Address |-> addrs[i]]]]
        ELSE [err |-> TRUE, list |-> <<>>]

(***************************************************************************)
(* mail.ReadMessage on the lines of the bytes msgCopy wrote.                *)
(* The header is the list of (key, value) in input order, the key as      *)
(* textproto.CanonicalMIMEHeaderKey makes it; Header[key] is the values of *)
(* that key in order, Header.Get(key) the first of them.                   *)
(***************************************************************************)
IsContinuation(line) == line[1] = " " \/ line[1] = "\t"

\* One field line "key: value\n".
Field(line) ==
    LET i == IndexByte(line, ":") IN
    <<CanonicalKey(SubSeq(line, 1, i - 1)),
      TrimSpace(SubSeq(line, i + 1, Len(line)))>>

\* textproto.Reader.ReadMIMEHeader: fields up to the blank line; a line
\* starting with white space continues the field before it.
RECURSIVE ReadMIMEHeader(_, _)
ReadMIMEHeader(lines, acc) ==
    IF lines = <<>>
    THEN [err |-> FALSE, eof |-> TRUE, header |-> acc, body |-> <<>>]
    ELSE LET line == Head(lines) IN
         IF line = nl
         THEN [err |-> FALSE, eof |-> FALSE, header |-> acc,
               body |-> Tail(lines)]
         ELSE IF IsContinuation(line)
         THEN IF acc = <<>>
              THEN [err |-> TRUE, eof |-> FALSE, header |-> <<>>, body |-> <<>>]
              ELSE LET n == Len(acc)
                       more == TrimSpace(line)
                       val == IF more = <<>> THEN acc[n][2]
                              ELSE acc[n][2] \o <<" ">> \o more
                   IN  ReadMIMEHeader(Tail(lines),
                                      [acc EXCEPT ![n] = <<acc[n][1], val>>])
         ELSE IF IndexByte(line, ":") < 2
         THEN [err |-> TRUE, eof |-> FALSE, header |-> <<>>, body |-> <<>>]
         ELSE ReadMIMEHeader(Tail(lines), Append(acc, Field(line)))

\* mail.ReadMessage.  Input that ends before the blank line is an error in
\* the older net/mail; the newer one takes it when it read a field.
ReadMessage(lines, lenient) ==
    LET r == ReadMIMEHeader(lines, <<>>) IN
    IF r.err \/ (r.eof /\ (~lenient \/ r.header = <<>>))
    THEN [err |-> TRUE, header |-> <<>>, body |-> <<>>]
    ELSE [err |-> FALSE, header |-> r.header, body |-> r.body]

\* msg.Header[key]
Values(h, key) ==
    LET at == SelectSeq([i \in 1..Len(h) |-> i], LAMBDA i : h[i][1] = key)
    IN  [j \in 1..Len(at) |-> h[at[j]][2]]

\* delete(msg.Header, key)
Delete(h, key) ==
    LET at == SelectSeq([i \in 1..Len(h) |-> i], LAMBDA i : h[i][1] # key)
    IN  [j \in 1..Len(at) |-> h[at[j]]]

Keys(h) == {h[i][1] : i \in 1..Len(h)}

\* mail.Header.AddressList(key): the list in the first value of key
AddressList(h, key) == ParseAddressList(Values(h, key)[1])

\* part_000:180-191: "key: value\n" for the keys in sorted order, each key's
\* values in their order, then the blank line.
Render(h) ==
    LET keys == SortStrings(Keys(h))
        of(k) == LET v == Values(h, k) IN
                 [j \in 1..Len(v) |-> k \o <<":", " ">> \o v[j] \o nl]
    IN  Flatten([i \in 1..Len(keys) |-> of(keys[i])]) \o <<nl>>

(***************************************************************************)
(* mailgun-sendmail: msgCopy (part_000:207-235).                           *)
(***************************************************************************)
IsTTY == opt.mode # "pipe"
iflag == opt.mode = "tty-i"

HasNL(line) == Last(line) = "\n"

\* part_000:219: a line that is exactly ".\n"
IsDotLine(line) == Len(line) = 2 /\ line[1] = "." /\ line[2] = "\n"

StopAtDot_AnyMode(line) == IsDotLine(line)

\* part_000:219
StopAtDot(line) == IsTTY /\ ~iflag /\ IsDotLine(line)

EndsHeader_ColonOnly(h, line) == h /\ IndexByte(line, ":") = 0

\* part_000:222: the first line that is neither a continuation nor a field
EndsHeader(h, line) ==
    h /\ line[1] # " " /\ line[1] # "\t" /\ IndexByte(line, ":") = 0

Emit_AsRead(h, line) ==
    (IF EndsHeader(h, line) /\ line[1] # "\n" THEN <<nl>> ELSE <<>>)
    \o <<line>>

\* part_000:222-233: the writes one line causes
Emit(h, line) ==
    (IF EndsHeader(h, line) /\ line[1] # "\n" THEN <<nl>> ELSE <<>>)
    \o <<line>>
    \o (IF HasNL(line) THEN <<>> ELSE <<nl>>)

\* What ReadBytes returns at the end of input: no bytes, and io.EOF.
EOF == <<>>

\* A read returned a line without "\n": the input ends there.
InputEnded == stdin # <<>> /\ Last(stdin) # EOF /\ ~HasNL(Last(stdin))

(***************************************************************************)
(* The command lines and the input lines looked at.                        *)
(***************************************************************************)
LSubject == <<"S", "u", "b", "j", "e", "c", "t", ":", " ", "h", "i", "\n">>
LHello == <<"h", "e", "l", "l", "o", "\n">>
LDot == <<".", "\n">>
LDotNoNL == <<".">>
LTo == <<"T", "o", ":", " ", "a", "@", "x", "\n">>
LBccLower == <<"b", "c", "c", ":", " ", "b", "@", "x", "\n">>
LBccUpper == <<"B", "C", "C", ":", " ", "c", "@", "x", ",", "d", "@", "x", "\n">>
LOther == <<"X", ":", " ", "y", "@", "x", "\n">>

LSubjectLower == <<"s", "u", "b", "j", "e", "c", "t", ":", " ", "y", "o", "\n">>
LCont == <<" ", "x", "\n">>

SendmailLines == {LSubject, nl, LHello, LDot, LBccLower, LBccUpper, LDotNoNL}
HeaderLines == {LSubject, LSubjectLower, LOther, nl}
BoundaryLines == {LSubject, LCont, nl, LHello}

\* An input of `mailgun-sendmail -t r` draws all its lines from one of these.
IngestAlphabets == {SendmailLines, HeaderLines, BoundaryLines}

\* The input read so far, and line after it, is such an input.
InAlphabet(line) ==
    \E A \in IngestAlphabets :
        /\ line \in A \cup {<<>>}
        /\ \A i \in 1..Len(stdin) : stdin[i] \in A \cup {<<>>}
MailLines == {LSubject, nl, LHello, LDot, LTo, LOther, LDotNoNL}

ArgLocal == <<"r">>                  \* an address without a domain
ArgBad == <<"a", " ", "b">>          \* a text no address parser takes
User == <<"u">>                      \* $USER
\* Foo (Bar) <baz@quux.com>
ArgBracket == <<"F", "o", "o", " ", "(", "B", "a", "r", ")", " ", "<",
                "b", "a", "z", "@", "q", "u", "u", "x", ".", "c", "o", "m", ">">>

\* Command lines of mailgun-sendmail: every mode with and without -t and a
\* delivery address, and one each with -d values, -b, -f and -F, an
\* address that does not parse, and no $USER.
SendmailPlain ==
    [mode : {"pipe", "tty", "tty-i"}, tflag : BOOLEAN,
     args : {<<>>, <<ArgLocal>>},
     dflag : {<<>>}, bflag : {"m"}, fflag : {<<>>}, Fflag : {<<>>},
     user : {User}]

SendmailPipeT == [mode |-> "pipe", tflag |-> TRUE, args |-> <<>>, dflag |-> <<>>,
                  bflag |-> "m", fflag |-> <<>>, Fflag |-> <<>>, user |-> User]

SendmailOpts ==
    SendmailPlain \cup
    { [SendmailPipeT EXCEPT !.dflag = <<"http", "nosend">>],
      [SendmailPipeT EXCEPT !.dflag = <<"nosend", "bogus">>],
      [SendmailPipeT EXCEPT !.bflag = "s"],
      [SendmailPipeT EXCEPT !.fflag = <<"s", "@", "x">>, !.Fflag = <<"N">>],
      [SendmailPipeT EXCEPT !.args = <<ArgBad>>],
      [SendmailPipeT EXCEPT !.user = <<>>] }

\* Command lines of mailgun-mail: a pipe or a terminal, with and without -t
\* and a To address, and one each with -s and -E, -n and -d, -r, an address
\* that does not parse, and no $USER.
MailPlain ==
    [mode : {"pipe", "tty"}, tflag : BOOLEAN, args : {<<>>, <<ArgLocal>>},
     nflag : {FALSE}, dflag : {FALSE}, rflag : {<<>>}, sflag : {<<>>},
     Eflag : {FALSE}, user : {User}]

MailTtyT == [mode |-> "tty", tflag |-> TRUE, args |-> <<>>, nflag |-> FALSE,
             dflag |-> FALSE, rflag |-> <<>>, sflag |-> <<>>, Eflag |-> FALSE,
             user |-> User]

MailOpts ==
    MailPlain \cup
    { [MailTtyT EXCEPT !.sflag = <<<<"s">>>>, !.Eflag = TRUE,
                       !.args = <<ArgLocal>>],
      [MailTtyT EXCEPT !.sflag = <<<<"s">>>>, !.nflag = TRUE, !.dflag = TRUE,
                       !.rflag = <<ArgBracket>>],
      [MailTtyT EXCEPT !.rflag = <<ArgBad>>],
      [MailTtyT EXCEPT !.args = <<ArgBad>>],
      [MailTtyT EXCEPT !.user = <<>>] }

\* AddrListFlag.Set on each argument in turn (mg.go:109-116)
RECURSIVE SetAll(_)
SetAll(args) ==
    IF args = <<>> THEN [err |-> FALSE, list |-> <<>>]
    ELSE LET a == ParseAddress(Head(args))
             more == SetAll(Tail(args))
         IN  IF a.err \/ more.err THEN [err |-> TRUE, list |-> <<>>]
             ELSE [err |-> FALSE,
                   list |-> <<[Name |-> a.Name, Address |-> a.Address]>>
                            \o more.list]

\* What a command leaves alone: no send is under way.
postVars == <<kind, msg, mime, prodPc, idx, allTo, prodErr, fileSizes,
              pwClosed, consPc, crTotal, received, bodySrc, netCalls, resp,
              data, consErr>>

sendVars == <<postVars, pvars>>

CmdFrame == UNCHANGED <<DisableMail, DebugHTTP, sendVars>>

\* mg.go:70-74, in a command: one goroutine, so the three calls as one step.
CmdDieSaying(said, what) ==
    /\ cpc' = "died"
    /\ log' = Append(log, [kind |-> "fatal", err |-> Fatal(what, 0, "")])
    /\ stderr' = stderr \o said \o <<what>>
    /\ exited' = TRUE

CmdDie(what) == CmdDieSaying(<<>>, what)

Quiet == UNCHANGED outVars

\* fmt.Fprintf(os.Stderr, ...)
Say(text) == stderr' = Append(stderr, text) /\ UNCHANGED <<log, exited>>

\* A ReadBytes('\n') that returns line, or EOF.
AtEOF == stdin # <<>> /\ Last(stdin) = EOF

ReadLine(line) ==
    /\ line # EOF => (~InputEnded /\ ~AtEOF /\ Len(stdin) < MaxLines)
    /\ stdin' = Append(stdin, line)

(***************************************************************************)
(* mailgun-sendmail: msgCopy's loop (part_000:210-234).                    *)
(***************************************************************************)
\* part_000:211-233: a line is read and copied, or ends the copy; at the
\* end of input the pipe is closed (part_000:200).
CopyLine(line) ==
    /\ cmd = "sendmail" /\ cpc = "copy"
    /\ ReadLine(line)
    /\ IF line = EOF \/ StopAtDot(line)
       THEN cpc' = "readmsg" /\ UNCHANGED <<hdr, out>>
       ELSE /\ hdr' = (hdr /\ ~EndsHeader(hdr, line))
            /\ out' = out \o Emit(hdr, line)
            /\ UNCHANGED cpc
    /\ UNCHANGED <<cmd, opt, parsed, from, rcpt, subject, body, call>>
    /\ Quiet /\ CmdFrame

\* part_000:215-217: a read fails with nothing read.
CopyReadError ==
    /\ cmd = "sendmail" /\ cpc = "copy"
    /\ ~InputEnded /\ ~AtEOF
    /\ CmdDie("reading message")
    /\ UNCHANGED <<cmd, opt, stdin, hdr, out, parsed, from, rcpt, subject, body,
                   call>>
    /\ CmdFrame

(***************************************************************************)
(* mailgun-sendmail: main (part_000:114-194).                              *)
(***************************************************************************)
\* part_000:114-151: flags, delivery addresses, the From address; then
\* stdinReader starts msgCopy (part_000:156, 196-203).
SendmailStart ==
    /\ cmd = "sendmail" /\ cpc = "main"
    /\ LET known == {"http", "nosend"}
           bogus == \E i \in 1..Len(opt.dflag) : opt.dflag[i] \notin known
           first == IF bogus
                    THEN CHOOSE i \in 1..Len(opt.dflag) :
                           /\ opt.dflag[i] \notin known
                           /\ \A j \in 1..(i - 1) : opt.dflag[j] \in known
                    ELSE Len(opt.dflag) + 1
           seen == {opt.dflag[i] : i \in 1..(first - 1)}
           set == SetAll(opt.args)
           addr == IF opt.fflag # <<>> THEN opt.fflag ELSE opt.user
       IN  /\ DebugHTTP' = ("http" \in seen)
           /\ DisableMail' = ("nosend" \in seen)
           /\ IF bogus
              THEN CmdDie("unknown debug value") /\ UNCHANGED <<from, rcpt>>
              ELSE IF opt.bflag # "m"
              THEN /\ CmdDie("only sendmail -bm is supported")
                   /\ UNCHANGED <<from, rcpt>>
              ELSE IF opt.args = <<>> /\ ~opt.tflag
              THEN /\ CmdDie("no delivery addresses given")
                   /\ UNCHANGED <<from, rcpt>>
              ELSE IF set.err
              THEN /\ CmdDie("cannot parse To: address")
                   /\ UNCHANGED <<from, rcpt>>
              ELSE IF addr = <<>>
              THEN /\ CmdDie("cannot determine From address")
                   /\ rcpt' = [rcpt EXCEPT !.to = set.list]
                   /\ UNCHANGED from
              ELSE /\ cpc' = "copy" /\ Quiet
                   /\ rcpt' = [rcpt EXCEPT !.to = set.list]
                   /\ from' = FixLocalAddr([Name |-> opt.Fflag, Address |-> addr])
    /\ UNCHANGED <<cmd, opt, stdin, hdr, out, parsed, subject, body, call>>
    /\ UNCHANGED sendVars

\* part_000:156-159
SendmailReadMessage ==
    /\ cmd = "sendmail" /\ cpc = "readmsg"
    /\ \E lenient \in BOOLEAN :
          /\ parsed' = ReadMessage(Lines(Flatten(out)), lenient)
          /\ IF parsed'.err
             THEN CmdDie("reading message header")
             ELSE cpc' = "deliver" /\ Quiet
    /\ UNCHANGED <<cmd, opt, stdin, hdr, out, from, rcpt, subject, body, call>>
    /\ CmdFrame

KTo == <<"T", "o">>
KCc == <<"C", "c">>
KBcc == <<"B", "c", "c">>
KFrom == <<"F", "r", "o", "m">>

\* part_000:161-170: the addresses of the To, Cc and Bcc fields, in that
\* order, appended to the list; the first list that does not parse stops it.
RECURSIVE Harvest(_, _, _)
Harvest(h, keys, to) ==
    IF keys = <<>> THEN [err |-> FALSE, to |-> to]
    ELSE IF Values(h, Head(keys)) = <<>> THEN Harvest(h, Tail(keys), to)
    ELSE LET addrs == AddressList(h, Head(keys)) IN
         IF addrs.err THEN [err |-> TRUE, to |-> to]
         ELSE Harvest(h, Tail(keys), to \o addrs.list)

\* part_000:175-178
Outgoing(h, sender) ==
    Delete(IF Values(h, KFrom) = <<>>
           THEN Append(h, <<KFrom, AddrString(sender)>>)
           ELSE h,
           KBcc)

\* part_000:160-193: recipients from the header with -t, the From field,
\* the Bcc field deleted, the header rendered, and the call of MailMIME.
SendmailDeliver ==
    /\ cmd = "sendmail" /\ cpc = "deliver"
    /\ LET got == IF opt.tflag
                  THEN Harvest(parsed.header, <<KTo, KCc, KBcc>>, rcpt.to)
                  ELSE [err |-> FALSE, to |-> rcpt.to]
       IN  /\ rcpt' = [rcpt EXCEPT !.to = got.to]
           /\ IF got.err
              THEN CmdDie("cannot parse list") /\ UNCHANGED call
              ELSE IF opt.tflag /\ got.to = <<>>
              THEN CmdDie("no recipients found in message") /\ UNCHANGED call
              ELSE /\ cpc' = "called" /\ Quiet
                   /\ call' = [fn |-> "MailMIME", from |-> from, to |-> got.to,
                               cc |-> <<>>, bcc |-> <<>>, subject |-> <<>>,
                               header |-> Render(Outgoing(parsed.header, from)),
                               body |-> parsed.body]
    /\ UNCHANGED <<cmd, opt, stdin, hdr, out, parsed, from, subject, body>>
    /\ CmdFrame

Sendmail ==
    \/ SendmailStart
    \/ \E line \in SendmailLines \cup {EOF} : CopyLine(line)
    \/ CopyReadError \/ SendmailReadMessage \/ SendmailDeliver

(***************************************************************************)
(* mailgun-mail: main (mg.go:402-574), without -v and without -a.          *)
(***************************************************************************)
BodyLoop == IF IsTTY THEN "ttybody" ELSE "copybody"
AfterSubject == IF opt.tflag THEN "theader" ELSE BodyLoop

\* mg.go:542-573: the Message is built and handed to Mail.
Send(lists, subj, text) ==
    /\ cpc' = "called"
    /\ call' = [fn |-> "Mail", from |-> from, to |-> lists.to, cc |-> lists.cc,
                bcc |-> lists.bcc, subject |-> subj, header |-> <<>>,
                body |-> text]

\* mg.go:423-457: flags, To addresses, the From address, the subject of -s
\* or the prompt for one.
MailStart ==
    /\ cmd = "mail" /\ cpc = "main"
    /\ DisableMail' = opt.nflag
    /\ DebugHTTP' = opt.dflag
    /\ LET set == SetAll(opt.args)
           given == IF opt.rflag # <<>> THEN ParseAddress(Last(opt.rflag))
                    ELSE [err |-> FALSE, Name |-> <<>>, Address |-> opt.user]
       IN  IF opt.args = <<>> /\ ~opt.tflag
           THEN /\ CmdDie("mail reading is not supported")
                /\ UNCHANGED <<rcpt, from, subject>>
           ELSE IF set.err
           THEN /\ CmdDie("cannot parse To: address")
                /\ UNCHANGED <<rcpt, from, subject>>
           ELSE IF given.err
           THEN /\ CmdDie("cannot parse From: address")
                /\ rcpt' = [rcpt EXCEPT !.to = set.list]
                /\ UNCHANGED <<from, subject>>
           ELSE IF given.Address = <<>> /\ opt.rflag = <<>>
           THEN /\ CmdDie("cannot determine From address")
                /\ rcpt' = [rcpt EXCEPT !.to = set.list]
                /\ UNCHANGED <<from, subject>>
           ELSE /\ rcpt' = [rcpt EXCEPT !.to = set.list]
                /\ from' = [Name |-> given.Name, Address |-> given.Address]
                /\ IF opt.sflag # <<>>
                   THEN /\ subject' = Last(opt.sflag)
                        /\ cpc' = AfterSubject /\ Quiet
                   ELSE IF IsTTY
                   THEN /\ cpc' = "prompt" /\ Say("Subject: ")
                        /\ UNCHANGED subject
                   ELSE cpc' = AfterSubject /\ Quiet /\ UNCHANGED subject
    /\ UNCHANGED <<cmd, opt, stdin, hdr, out, parsed, body, call>>
    /\ UNCHANGED sendVars

\* mg.go:459-467: the line typed at the prompt is the subject; at the end
\* of input nothing is sent.
MailPrompt(line) ==
    /\ cmd = "mail" /\ cpc = "prompt"
    /\ ReadLine(line)
    /\ IF line = EOF
       THEN /\ cpc' = "returned"
            /\ log' = Append(log, [kind |-> "info",
                                   text |-> "no subject, no text, not sending"])
            /\ UNCHANGED <<subject, stderr, exited>>
       ELSE subject' = TrimNL(line) /\ cpc' = AfterSubject /\ Quiet
    /\ UNCHANGED <<cmd, opt, hdr, out, parsed, from, rcpt, body, call>>
    /\ CmdFrame

\* mg.go:483: "." or ".\n" typed at a terminal
IsDotTyped(line) ==
    /\ line[1] = "." /\ (Len(line) = 1 \/ (Len(line) = 2 /\ line[2] = "\n"))
    /\ IsTTY

Warning == "ignoring header field"
Panic == "panic: nil pointer dereference"

\* mg.go:473-514: one line of the -t loop.
MailHeaderLine(line) ==
    /\ cmd = "mail" /\ cpc = "theader"
    /\ ReadLine(line)
    /\ IF line = EOF \/ line = nl
       THEN cpc' = BodyLoop /\ Quiet /\ UNCHANGED <<rcpt, subject, body, call>>
       ELSE IF IndexByte(line, ":") = 0
       THEN IF IsDotTyped(line)
            THEN Send(rcpt, subject, body) /\ Quiet
                 /\ UNCHANGED <<rcpt, subject, body>>
            ELSE /\ body' = Append(body, line)
                 /\ cpc' = BodyLoop /\ Quiet /\ UNCHANGED <<rcpt, subject, call>>
       ELSE LET i == IndexByte(line, ":")
                key == ToLower(SubSeq(line, 1, i - 1))
                val == TrimSpace(SubSeq(line, i + 1, Len(line)))
                addrs == ParseAddressList(val)
            IN  /\ UNCHANGED <<body, call>>
                /\ IF key = ToLower(<<"S", "u", "b", "j", "e", "c", "t">>)
                   THEN subject' = val /\ UNCHANGED <<cpc, rcpt>> /\ Quiet
                   ELSE IF key \in {ToLower(KTo), ToLower(KCc), ToLower(KBcc)}
                   THEN /\ UNCHANGED subject
                        /\ IF addrs.err
                           THEN CmdDie("cannot parse list") /\ UNCHANGED rcpt
                           ELSE /\ UNCHANGED cpc /\ Quiet
                                /\ rcpt' =
                                     IF key = ToLower(KTo)
                                     THEN [rcpt EXCEPT !.to = @ \o addrs.list]
                                     ELSE IF key = ToLower(KCc)
                                     THEN [rcpt EXCEPT !.cc = @ \o addrs.list]
                                     ELSE [rcpt EXCEPT !.bcc = @ \o addrs.list]
                   ELSE /\ UNCHANGED <<subject, rcpt>>
                        /\ IF addrs.err
                           THEN CmdDieSaying(<<Warning>>, "cannot parse list")
                           ELSE /\ cpc' = "panicked"       \* *list with list nil
                                /\ stderr' = stderr \o <<Warning, Panic>>
                                /\ exited' = TRUE
                                /\ UNCHANGED log
    /\ UNCHANGED <<cmd, opt, hdr, out, parsed, from>>
    /\ CmdFrame

\* mg.go:520-533: the body typed at a terminal, to a line ".\n" or the end
\* of input; then the send.
MailBodyLine(line) ==
    /\ cmd = "mail" /\ cpc = "ttybody"
    /\ ReadLine(line)
    /\ IF line = EOF \/ IsDotLine(line)
       THEN Send(rcpt, subject, body) /\ Say("EOT") /\ UNCHANGED body
       ELSE body' = Append(body, line) /\ Quiet /\ UNCHANGED <<cpc, call>>
    /\ UNCHANGED <<cmd, opt, hdr, out, parsed, from, rcpt, subject>>
    /\ CmdFrame

\* mg.go:536-540: io.Copy takes what the input has, to its end; then the send.
MailCopy(line) ==
    /\ cmd = "mail" /\ cpc = "copybody"
    /\ ReadLine(line)
    /\ IF line = EOF
       THEN Send(rcpt, subject, body) /\ UNCHANGED body
       ELSE body' = Append(body, line) /\ UNCHANGED <<cpc, call>>
    /\ Quiet
    /\ UNCHANGED <<cmd, opt, hdr, out, parsed, from, rcpt, subject>>
    /\ CmdFrame

\* mg.go:464-466, 477-479, 525-527, 537-539: a read fails with nothing read.
MailReadError ==
    /\ cmd = "mail" /\ cpc \in {"prompt", "theader", "ttybody", "copybody"}
    /\ ~InputEnded /\ ~AtEOF
    /\ CmdDie(IF cpc = "prompt" THEN "reading subject" ELSE "reading message")
    /\ UNCHANGED <<cmd, opt, stdin, hdr, out, parsed, from, rcpt, subject, body,
                   call>>
    /\ CmdFrame

MailCmd ==
    \/ MailStart
    \/ \E line \in MailLines \cup {EOF} :
          \/ MailPrompt(line) \/ MailHeaderLine(line)
          \/ MailBodyLine(line) \/ MailCopy(line)
    \/ MailReadError

\* No send is under way while a command prepares one.
NoSend ==
    /\ DisableMail = FALSE /\ DebugHTTP = FALSE
    /\ kind = "" /\ mime = 0 /\ prodPc = "" /\ idx = 1 /\ allTo = <<>>
    /\ msg = [From |-> [Name |-> <<>>, Address |-> <<>>], To |-> <<>>,
              CC |-> <<>>, BCC |-> <<>>, Subject |-> <<>>, Body |-> <<>>,
              Attachments |-> <<>>]
    /\ prodErr = NoErr /\ fileSizes = <<>> /\ pwClosed = FALSE
    /\ consPc = "idle" /\ crTotal = 0 /\ received = <<>> /\ bodySrc = "pipe"
    /\ netCalls = 0 /\ resp = [status |-> 0, body |-> "", readErr |-> "no"]
    /\ data = "" /\ consErr = NoErr
    /\ log = <<>> /\ stderr = <<>> /\ exited = FALSE
    /\ rpc = "idle" /\ pend = <<>> /\ rbuf = <<>>

InitCmd ==
    /\ NoSend
    /\ cmd \in {"sendmail", "mail"}
    /\ opt \in IF cmd = "sendmail" THEN SendmailOpts ELSE MailOpts
    /\ cpc = "main"
    /\ stdin = <<>> /\ hdr = TRUE /\ out = <<>>
    /\ parsed = [err |-> FALSE, header |-> <<>>, body |-> <<>>]
    /\ from = [Name |-> <<>>, Address |-> <<>>]
    /\ rcpt = [to |-> <<>>, cc |-> <<>>, bcc |-> <<>>]
    /\ subject = <<>> /\ body = <<>>
    /\ call = [fn |-> ""]

NextCmd == Sendmail \/ MailCmd

SpecCmd == InitCmd /\ [][NextCmd]_vars

\* `mailgun-sendmail -t r` on a pipe, on a terminal, and on a terminal with
\* -i, over the wider inputs of IngestAlphabets.
InitIngest ==
    /\ NoSend
    /\ cmd = "sendmail"
    /\ opt \in {[SendmailPipeT EXCEPT !.mode = m, !.args = <<ArgLocal>>] :
                   m \in {"pipe", "tty", "tty-i"}}
    /\ cpc = "main"
    /\ stdin = <<>> /\ hdr = TRUE /\ out = <<>>
    /\ parsed = [err |-> FALSE, header |-> <<>>, body |-> <<>>]
    /\ from = [Name |-> <<>>, Address |-> <<>>]
    /\ rcpt = [to |-> <<>>, cc |-> <<>>, bcc |-> <<>>]
    /\ subject = <<>> /\ body = <<>>
    /\ call = [fn |-> ""]

NextIngest ==
    \/ SendmailStart
    \/ \E line \in UNION IngestAlphabets \cup {EOF} :
          InAlphabet(line) /\ CopyLine(line)
    \/ CopyReadError \/ SendmailReadMessage \/ SendmailDeliver

SpecIngest == InitIngest /\ [][NextIngest]_vars

(***************************************************************************)
(* mailgun-sendmail as it runs: msgCopy in its goroutine, main, and        *)
(* runPost.  Both pipes are io.Pipe: a Write returns when Reads of the     *)
(* other side have taken its bytes.                                        *)
(***************************************************************************)
cmdLocal == <<cmd, opt, parsed, from, rcpt, subject, body, call>>

\* part_000:156, 197-202: stdinReader makes the pipe and starts the
\* goroutine; main goes on into mail.ReadMessage.
stdinReader ==
    /\ cmd = "sendmail" /\ cpc = "copy" /\ rpc = "idle"
    /\ rpc' = "copy" /\ cpc' = "readmsg"
    /\ UNCHANGED <<pend, rbuf, stdin, hdr, out, cmdLocal>>
    /\ Quiet /\ UNCHANGED <<DisableMail, DebugHTTP, postVars>>

\* part_000:211-233 in the goroutine: the writes of the line before have
\* returned; a line is read and its writes begin, or the loop ends.
ReaderLine(line) ==
    /\ ~exited /\ rpc = "copy" /\ pend = <<>>
    /\ ReadLine(line)
    /\ IF line = EOF \/ StopAtDot(line)
       THEN rpc' = "close" /\ UNCHANGED <<hdr, pend>>
       ELSE /\ hdr' = (hdr /\ ~EndsHeader(hdr, line))
            /\ pend' = Emit(hdr, line)
            /\ UNCHANGED rpc
    /\ UNCHANGED <<rbuf, cpc, out, cmdLocal>>
    /\ Quiet /\ UNCHANGED <<DisableMail, DebugHTTP, postVars>>

\* part_000:215-217 in the goroutine: mg.Die ends the process, main with it.
ReaderReadError ==
    /\ ~exited /\ rpc = "copy" /\ pend = <<>>
    /\ ~InputEnded /\ ~AtEOF
    /\ CmdDie("reading message")
    /\ UNCHANGED <<pvars, stdin, hdr, out, cmdLocal>>
    /\ UNCHANGED <<DisableMail, DebugHTTP, postVars>>

\* ReaderClose as it would be if the goroutine returned without pw.Close().
ReaderClose_NoClose ==
    /\ ~exited /\ rpc = "close"
    /\ rpc' = "left"
    /\ UNCHANGED <<pend, rbuf, stdin, cpc, hdr, out, cmdLocal>>
    /\ Quiet /\ UNCHANGED <<DisableMail, DebugHTTP, postVars>>

\* part_000:200: msgCopy has returned, the write end is closed.
ReaderClose ==
    /\ ~exited /\ rpc = "close"
    /\ rpc' = "done"
    /\ UNCHANGED <<pend, rbuf, stdin, cpc, hdr, out, cmdLocal>>
    /\ Quiet /\ UNCHANGED <<DisableMail, DebugHTTP, postVars>>

\* A Read of the first pipe returns io.EOF.
PipeEOF == rpc = "done" /\ pend = <<>>

\* A Read of main takes the bytes of the write that waits (io.Pipe).
Fill ==
    /\ pend # <<>>
    /\ rbuf' = rbuf \o Head(pend)
    /\ pend' = Tail(pend)
    /\ out' = Append(out, Head(pend))
    /\ UNCHANGED <<rpc, stdin, hdr>>

\* main's reader holds a whole line.
HasLine == rbuf # <<>> /\ HasNL(rbuf)

\* part_000:156, inside mail.ReadMessage: the reader has no whole line and
\* reads the pipe.
ReadMessageFill ==
    /\ ~exited /\ cpc = "readmsg" /\ ~HasLine
    /\ Fill
    /\ UNCHANGED <<cpc, cmdLocal>>
    /\ Quiet /\ UNCHANGED <<DisableMail, DebugHTTP, postVars>>

\* part_000:156-159, inside mail.ReadMessage: textproto takes the line the
\* reader holds: a field or a continuation joins the header read so far,
\* the blank line ends it and ReadMessage returns, anything else is an
\* error.
ReadMessageLine ==
    /\ ~exited /\ cpc = "readmsg" /\ HasLine
    /\ LET r == ReadMIMEHeader(<<rbuf>>, parsed.header) IN
          IF r.err
          THEN /\ CmdDie("reading message header")
               /\ parsed' = [parsed EXCEPT !.err = TRUE]
               /\ UNCHANGED rbuf
          ELSE /\ parsed' = [parsed EXCEPT !.header = r.header]
               /\ rbuf' = <<>>
               /\ cpc' = IF r.eof THEN "readmsg" ELSE "deliver"
               /\ Quiet
    /\ UNCHANGED <<rpc, pend, stdin, hdr, out, cmd, opt, from, rcpt, subject,
                   body, call>>
    /\ UNCHANGED <<DisableMail, DebugHTTP, postVars>>

\* part_000:156-159: the pipe ends before the blank line.  The older
\* net/mail returns io.EOF; the newer one returns the message when it read
\* a field.
ReadMessageEOF ==
    /\ ~exited /\ cpc = "readmsg" /\ ~HasLine /\ PipeEOF
    /\ \E lenient \in BOOLEAN :
          IF ~lenient \/ parsed.header = <<>>
          THEN /\ CmdDie("reading message header")
               /\ parsed' = [parsed EXCEPT !.err = TRUE]
          ELSE cpc' = "deliver" /\ Quiet /\ UNCHANGED parsed
    /\ UNCHANGED <<pvars, stdin, hdr, out, cmd, opt, from, rcpt, subject,
                   body, call>>
    /\ UNCHANGED <<DisableMail, DebugHTTP, postVars>>

\* part_000:193 with mg.go:292: main calls MailMIME.
CallMailMIME ==
    /\ ~exited /\ cpc = "called" /\ prodPc = ""
    /\ kind' = "messages.mime"
    /\ msg' = [msg EXCEPT !.From = call.from, !.To = call.to]
    /\ prodPc' = "mailmime"
    /\ UNCHANGED <<DisableMail, DebugHTTP, mime, idx, allTo, prodErr,
                   fileSizes, pwClosed, consLocal, outVars>>
    /\ NoWrite

\* The bytes of one Write of io.Copy.
Bytes(q) == [t |-> "data", name |-> "", val |-> q, n |-> Len(q)]

\* mg.go:302, io.Copy from io.MultiReader(&hdr, msg.Body): hdr first.
CopyHeader ==
    /\ prodPc = "mime_copy"
    /\ PipeWrite(Bytes(call.header))
    /\ prodPc' = "mime_body" /\ UNCHANGED idx
    /\ ProdFrame

\* mg.go:302: a Read of msg.Body with nothing held reads the first pipe.
CopyRead ==
    /\ ~exited /\ prodPc = "mime_body" /\ rbuf = <<>>
    /\ Fill
    /\ UNCHANGED <<cpc, cmdLocal, received, crTotal, prodPc, idx>>
    /\ ProdFrame

\* mg.go:302: what the Read returned is written to the second pipe.
CopyWrite ==
    /\ prodPc = "mime_body" /\ rbuf # <<>>
    /\ PipeTake(Bytes(rbuf))
    /\ rbuf' = <<>>
    /\ UNCHANGED <<rpc, pend, cvars, prodPc, idx>>
    /\ ProdFrame

\* mg.go:302-303: msg.Body is at its end, io.Copy returns.
CopyEOF ==
    /\ ~exited /\ prodPc = "mime_body" /\ rbuf = <<>> /\ PipeEOF
    /\ prodPc' = "close" /\ UNCHANGED idx
    /\ NoWrite /\ ProdFrame

PipeLines == {LSubject, LHello, LDot}

PipeOpts ==
    LET o == [SendmailPipeT EXCEPT !.args = <<ArgLocal>>]
    IN  {o, [o EXCEPT !.dflag = <<"http">>],
         [o EXCEPT !.mode = "tty", !.dflag = <<"nosend">>]}

InitPipe ==
    /\ NoSend
    /\ cmd = "sendmail"
    /\ opt \in PipeOpts
    /\ cpc = "main"
    /\ stdin = <<>> /\ hdr = TRUE /\ out = <<>>
    /\ parsed = [err |-> FALSE, header |-> <<>>, body |-> <<>>]
    /\ from = [Name |-> <<>>, Address |-> <<>>]
    /\ rcpt = [to |-> <<>>, cc |-> <<>>, bcc |-> <<>>]
    /\ subject = <<>> /\ body = <<>>
    /\ call = [fn |-> ""]

\* The goroutine of stdinReader.
Reader ==
    \/ \E line \in PipeLines \cup {EOF} : ReaderLine(line)
    \/ ReaderClose

\* main of mailgun-sendmail, into MailMIME and to its return.
Main ==
    \/ SendmailStart \/ stdinReader \/ ReadMessageFill \/ ReadMessageLine
    \/ ReadMessageEOF \/ SendmailDeliver \/ CallMailMIME \/ MimeFix \/ StartPost
    \/ MimeWriteTo \/ MimeToDone \/ MimeCreate \/ CopyHeader \/ CopyRead
    \/ CopyWrite \/ CopyEOF \/ WClose \/ EndClose \/ EndWait

NextPipe == Reader \/ ReaderReadError \/ Main \/ Consumer \/ Network

SpecPipe == InitPipe /\ [][NextPipe]_vars

\* Go schedules every runnable goroutine, standard input comes to its end
\* (or fails), and the network ends every exchange with an answer or an
\* error.
FairPipe ==
    SpecPipe /\ WF_vars(Reader) /\ WF_vars(Main) /\ WF_vars(Consumer)
             /\ WF_vars(Network)

(***************************************************************************)
(* Properties of the commands.                                             *)
(***************************************************************************)

Called == call.fn # ""

\* C5: whenever a command calls Mail or MailMIME, the To, CC and BCC lists
\* it hands over hold at least one address between them.
C5_RecipientsNeverEmpty ==
    Called => Len(call.to) + Len(call.cc) + Len(call.bcc) > 0

\* The field lines at the head of the input: those with a ":" or starting
\* with white space, up to the first line that is neither.
RECURSIVE FieldLines(_)
FieldLines(lines) ==
    IF lines = <<>> \/ Head(lines) = EOF THEN <<>>
    ELSE IF IsContinuation(Head(lines)) \/ IndexByte(Head(lines), ":") > 0
    THEN <<Head(lines)>> \o FieldLines(Tail(lines))
    ELSE <<>>

NameOf(line) == SubSeq(line, 1, IndexByte(line, ":") - 1)

IsBccLine(line) ==
    /\ ~IsContinuation(line) /\ IndexByte(line, ":") > 0
    /\ ToLower(NameOf(line)) = <<"b", "c", "c">>

BccLines == SelectSeq(FieldLines(stdin), IsBccLine)

\* The addresses a field line lists, separated by commas.
AddrsOf(line) ==
    LET items == Split(SubSeq(line, IndexByte(line, ":") + 1, Len(line)), ",")
    IN  {TrimSpace(items[i]) : i \in 1..Len(items)}

Recipients == {call.to[i].Address : i \in 1..Len(call.to)}

NoBccRendered == \A i \in 1..Len(call.header) : ~IsBccLine(call.header[i])

\* C6 as stated: when mailgun-sendmail calls MailMIME for an input with Bcc
\* fields, the rendered header has no Bcc field and the recipients include
\* every address of every Bcc field.
C6_BccAsClaimed ==
    (cmd = "sendmail" /\ Called /\ BccLines # <<>>) =>
        /\ NoBccRendered
        /\ \A i \in 1..Len(BccLines) : AddrsOf(BccLines[i]) \subseteq Recipients

\* C6: when mailgun-sendmail calls MailMIME, the rendered header has no Bcc
\* field however the input spelled the name; with -t the recipients include
\* every address of the input's first Bcc field, and without -t they are the
\* command line's addresses only.
C6_BccStrippedAndHarvested ==
    (cmd = "sendmail" /\ Called) =>
        /\ NoBccRendered
        /\ (opt.tflag /\ BccLines # <<>>) =>
              AddrsOf(BccLines[1]) \subseteq Recipients
        /\ ~opt.tflag => call.to = SetAll(opt.args).list

C6_Witness ==
    /\ cmd = "sendmail" /\ Called /\ opt.tflag
    /\ Len(BccLines) = 2 /\ BccLines[1] = LBccUpper
    /\ <<"d", "@", "x">> \in Recipients

\* The lines the ingestion read: all of standard input, but for the line
\* mailgun-mail's Subject prompt took.
Ingested ==
    IF cmd = "mail" /\ IsTTY /\ opt.sflag = <<>> /\ stdin # <<>>
    THEN Tail(stdin) ELSE stdin

\* What the ingestion emitted: msgCopy's output, mailgun-mail's body.
Emitted == IF cmd = "sendmail" THEN out ELSE body

Ingesting ==
    \/ cmd = "sendmail" /\ cpc = "copy"
    \/ cmd = "mail" /\ cpc \in {"theader", "ttybody", "copybody"}

\* The read after the last line failed.
ReadFailed == cpc = "died" /\ Last(stderr) = "reading message"

DotStops == IsTTY /\ ~iflag

Count(lines, line) == Cardinality({i \in 1..Len(lines) : lines[i] = line})

Example == <<LSubject, nl, LHello, LDot>>

\* C10: on a terminal without -i, a line ".\n" is the last line read, ends
\* the ingestion and is not emitted; on a pipe or with -i such a line does
\* not end the ingestion (the next read is made) and is emitted, once for
\* each time it was read.  The
\* input "Subject: hi", "", "hello", "." on a terminal gives the header
\* Subject: hi and the body "hello\n".
C10_DotTermination ==
    /\ DotStops =>
          /\ \A i \in 1..Len(Ingested) :
                Ingested[i] = LDot => (i = Len(Ingested) /\ ~Ingesting)
          /\ Count(Emitted, LDot) = 0
    /\ ~DotStops =>
          /\ (Ingested # <<>> /\ Last(Ingested) = LDot) =>
                (Ingesting \/ ReadFailed)
          /\ Count(Emitted, LDot) = Count(Ingested, LDot)
    /\ (cmd = "sendmail" /\ opt.mode = "tty" /\ stdin = Example) =>
          /\ out = <<LSubject, nl, LHello>>
          /\ cpc \in {"deliver", "called"} =>
                /\ parsed.header = << <<NameOf(LSubject), <<"h", "i">>>> >>
                /\ parsed.body = <<LHello>>

C10_Witness ==
    /\ cmd = "sendmail" /\ opt.mode = "tty" /\ stdin = Example
    /\ Called /\ call.body = <<LHello>>

\* The lines msgCopy copied: what it read, but for the end of input and
\* the line ".\n" that stopped it.
Copied == SelectSeq(stdin, LAMBDA l : l # EOF /\ ~(DotStops /\ l = LDot))

HeaderLike(line) ==
    line[1] = " " \/ line[1] = "\t" \/ \E i \in 1..Len(line) : line[i] = ":"

\* The place of the first line that is not header-like; past the end if none.
FirstBody(lines) ==
    IF \A i \in 1..Len(lines) : HeaderLike(lines[i]) THEN Len(lines) + 1
    ELSE CHOOSE k \in 1..Len(lines) :
            /\ ~HeaderLike(lines[k])
            /\ \A i \in 1..(k - 1) : HeaderLike(lines[i])

\* The stream for lines: each line in order, ended with "\n" if it lacks
\* one, and one blank line before the first line that is not header-like
\* unless that line is blank.
Expected(lines) ==
    LET k == FirstBody(lines) IN
    Flatten([i \in 1..Len(lines) |->
               (IF i = k /\ lines[i] # nl THEN <<nl>> ELSE <<>>)
               \o <<lines[i]>>
               \o (IF Last(lines[i]) = "\n" THEN <<>> ELSE <<nl>>)])

\* C11: msgCopy is in the header state exactly while every line copied so
\* far starts with white space or has a ":", so the first other line moves
\* it to the body state for good; its output is the lines in order with one
\* blank line put before that first other line unless it is blank; and when
\* the first line is body text the output starts with the blank line and
\* the header block read from it is empty.
C11_HeaderBodyBoundary ==
    cmd = "sendmail" =>
        /\ hdr = (FirstBody(Copied) > Len(Copied))
        /\ out = Expected(Copied)
        /\ Len(SelectSeq(out, LAMBDA w : w = nl))
              <= Len(SelectSeq(Copied, LAMBDA l : l = nl \/ Last(l) # "\n")) + 1
        /\ (Copied # <<>> /\ ~HeaderLike(Copied[1]) /\ Copied[1] # nl) =>
              /\ out[1] = nl
              /\ ReadMIMEHeader(Lines(Flatten(out)), <<>>).header = <<>>

C11_Witness ==
    /\ cmd = "sendmail" /\ stdin = <<LSubject, LCont, LHello, LSubject>>
    /\ ~hdr /\ out = <<LSubject, LCont, nl, LHello, LSubject>>

\* The name and the value of a rendered line "name: value\n".
RenderedName(line) == SubSeq(line, 1, IndexByte(line, ":") - 1)
RenderedValue(line) == SubSeq(line, IndexByte(line, ":") + 2, Len(line) - 1)

\* The values of the lines named k, in their order.
ValuesNamed(lines, k) ==
    LET at == SelectSeq([i \in 1..Len(lines) |-> i],
                        LAMBDA i : lines[i] # nl /\ RenderedName(lines[i]) = k)
    IN  [j \in 1..Len(at) |-> RenderedValue(lines[at[j]])]

\* The fields main renders: those read, a From field if none was read, and
\* no Bcc field.
FieldsToRender ==
    LET h == parsed.header
        f == IF \E i \in 1..Len(h) : h[i][1] = KFrom THEN h
             ELSE h \o << <<KFrom, AddrString(from)>> >>
    IN  SelectSeq(f, LAMBDA p : p[1] # KBcc)

\* Two neighbouring fields of h change places.
Swapped(h, i) == [h EXCEPT ![i] = h[i + 1], ![i + 1] = h[i]]

\* C12: the header block mailgun-sendmail hands to MailMIME has its lines
\* in ascending order of field name, holds for each name the values read
\* for it in their input order, ends with the one blank line of the block,
\* and is the same when two neighbouring input fields of different names
\* change places.
C12_SortedHeader ==
    (cmd = "sendmail" /\ Called) =>
        LET r == call.header
            n == Len(r)
            h == FieldsToRender
        IN  /\ n = Len(h) + 1
            /\ r[n] = nl
            /\ \A i \in 1..(n - 1) : r[i] # nl /\ Last(r[i]) = "\n"
            /\ \A i \in 1..(n - 2) :
                  ~StrLess(RenderedName(r[i + 1]), RenderedName(r[i]))
            /\ \A i \in 1..Len(h) : ValuesNamed(r, h[i][1]) = Values(h, h[i][1])
            /\ \A i \in 1..(Len(parsed.header) - 1) :
                  parsed.header[i][1] # parsed.header[i + 1][1] =>
                     Render(Outgoing(Swapped(parsed.header, i), from)) = r

C12_Witness ==
    /\ cmd = "sendmail" /\ Called
    /\ Len(stdin) >= 3
    /\ SubSeq(stdin, 1, 3) = <<LOther, LSubjectLower, LSubject>>
    /\ Len(call.header) = 5
    /\ call.header[2] = <<"S">> \o Tail(LSubjectLower)
    /\ call.header[3] = LSubject
    /\ call.header[4] = LOther

\* A text that ends with ">", does not start with a quote and has a "<".
IsBracketForm(addr) ==
    /\ addr # <<>> /\ Last(addr) = ">" /\ Head(addr) # "\""
    /\ \E i \in 1..Len(addr) : addr[i] = "<"

\* C13: when mailgun-mail takes its sender from a -r text of the bracket
\* form, the name is the trimmed text before the last "<" and the mailbox
\* is the text strictly between that "<" and the final ">".
C13_BracketForm ==
    (/\ cmd = "mail" /\ cpc \notin {"main", "died"}
     /\ opt.rflag # <<>> /\ IsBracketForm(Last(opt.rflag))) =>
        LET addr == Last(opt.rflag)
            i == CHOOSE k \in 1..Len(addr) :
                    addr[k] = "<" /\ \A j \in (k + 1)..Len(addr) : addr[j] # "<"
        IN  /\ from.Name = TrimSpace(SubSeq(addr, 1, i - 1))
            /\ from.Address = SubSeq(addr, i + 1, Len(addr) - 1)

\* C14: of the addresses a command hands to Mail or MailMIME, which apply
\* FixLocalAddr to each, one without "@" is transmitted as itself, "@" and
\* the domain, one with "@" as it is, and FixLocalAddr changes neither
\* again; the sender mailgun-sendmail hands over went through FixLocalAddr
\* in main already and is transmitted as main left it.
C14_DomainAppendedOnce ==
    Called =>
        LET given == <<call.from>> \o call.to \o call.cc \o call.bcc
            sent == FixLocalAddrs(given)
        IN  /\ \A i \in 1..Len(given) :
                  /\ FixLocalAddr(sent[i]) = sent[i]
                  /\ sent[i].Address =
                        IF \E j \in 1..Len(given[i].Address) :
                              given[i].Address[j] = "@"
                        THEN given[i].Address
                        ELSE given[i].Address \o <<"@">> \o Domain
            /\ cmd = "sendmail" =>
                  /\ sent[1] = call.from
                  /\ opt.fflag = <<>> =>
                        call.from.Address = opt.user \o <<"@">> \o Domain

C14_Witness ==
    /\ cmd = "sendmail" /\ Called
    /\ call.from.Address = User \o <<"@">> \o Domain
    /\ Len(call.to) = 1 /\ call.to[1].Address = ArgLocal

\* C15: with -E, mailgun-mail calls Mail only for a message with a body
\* that is not empty.
C15_EmptyDiscarded ==
    (cmd = "mail" /\ opt.Eflag /\ Called) => Flatten(call.body) # <<>>

\* C16: the stream msgCopy has written ends with a line break after every
\* line it processed; only the last line read can lack its line break, and
\* it gets one byte more; and the lines of the stream are the lines copied,
\* in their order, with the one blank line before the first line that is not
\* header-like (unless that line is blank).
C16_LineBreaks ==
    cmd = "sendmail" =>
        LET bytes == Flatten(out)
            full == [i \in 1..Len(Copied) |->
                       IF Last(Copied[i]) = "\n" THEN Copied[i]
                       ELSE Copied[i] \o nl]
            k == FirstBody(Copied)
            synth == k <= Len(Copied) /\ Copied[k] # nl
        IN  /\ out # <<>> => Last(bytes) = "\n"
            /\ \A i \in 1..(Len(Copied) - 1) : Last(Copied[i]) = "\n"
            /\ Len(bytes) = SumSeq([i \in 1..Len(full) |-> Len(full[i])])
                            + (IF synth THEN 1 ELSE 0)
            /\ Lines(bytes) =
                  IF synth
                  THEN SubSeq(full, 1, k - 1) \o <<nl>> \o SubSeq(full, k, Len(full))
                  ELSE full

C16_Witness ==
    /\ cmd = "sendmail" /\ Copied = <<LSubject, LDotNoNL>>
    /\ out = <<LSubject, nl, LDotNoNL, nl>>

\* C18 as claimed: when the -t loop of mailgun-mail reads a header line whose
\* name is none of Subject, To, Cc, Bcc, the warning is printed, neither the
\* recipient lists nor the subject change, the program does not stop, and
\* the loop goes on to the next line.
C18_UnknownFieldIgnored ==
    [][(/\ cmd = "mail" /\ cpc = "theader"
        /\ Len(stdin') = Len(stdin) + 1
        /\ Last(stdin') = LOther)
       => (/\ Warning \in {stderr'[i] : i \in DOMAIN stderr'}
           /\ rcpt' = rcpt /\ subject' = subject
           /\ ~exited' /\ cpc' = "theader")]_vars

\* C19 as claimed: whenever the input of mailgun-sendmail ended, by its end
\* or by the terminator line, and no read failed, the header parser accepts
\* what msgCopy wrote and the program does not stop with the fatal error of
\* reading the message header.
C19_IngestionAccepted ==
    (cmd = "sendmail" /\ stdin # <<>> /\ ~ReadFailed
     /\ cpc \notin {"copy", "readmsg"})
        => /\ ~parsed.err
           /\ ~(cpc = "died" /\ Last(stderr) = "reading message header")

\* The bytes io.Copy handed to the consumer, in the order it got them.
DataReceived ==
    LET sel == SelectSeq(received, LAMBDA p : p.t = "data")
    IN  Flatten([i \in 1..Len(sel) |-> sel[i].val])

\* What follows the header block in a stream.
BodyOf(stream) == Flatten(ReadMessage(Lines(stream), TRUE).body)

\* Every stage is at its end: the goroutine of msgCopy has closed its pipe,
\* nothing waits in it or in main's reader, MailMIME has returned and
\* runPost has signalled.
Finished ==
    /\ rpc = "done" /\ pend = <<>> /\ rbuf = <<>>
    /\ cpc = "called" /\ prodPc = "returned" /\ pwClosed /\ consPc = "done"

====
